---- MODULE Spec2Model ----
(***************************************************************************)
(* Model of the multi-server chat route (src/src/app/api/chat/route.ts):   *)
(* initializeAllMcpClients (the connection pool), the POST handler's tool  *)
(* loop with its SSE frames, and the teardown in its finally block.        *)
(*                                                                         *)
(* One request is modelled.  Every await of the handler is a point where   *)
(* the model's actions interleave; the code between two awaits is one      *)
(* action.  Text (message contents, error texts) is kept as a tag.         *)
(***************************************************************************)
EXTENDS Integers, Sequences, FiniteSets, TLC

(* ---------------------------------------------------------------- bounds *)
MaxServers == 2          \* longest descriptor list of a request
MaxBatch == 2            \* most tool calls in one model response
MaxChunk == 2            \* most frames in one chunk the page reads
MaxRead == 3             \* frames after which the stream delivers no more
MaxSends == 2            \* messages the user sends from the page

(* ------------------------------------------------------------- constants *)
MAX_TOOL_ITERATIONS == 5

(* ------------------------------------------------- the request's inputs  *)
ServerNames == {"A", "B"}

\* A path is kept as its stem and its extension (path.extname).
PathAJs == [stem |-> "a", ext |-> ".js"]
PathBPy == [stem |-> "b", ext |-> ".py"]
PathGone == [stem |-> "gone", ext |-> ".js"]
Paths == {PathAJs, PathBPy, PathGone}
\* A script whose tools are listed by no other script.
PathCPy == [stem |-> "c", ext |-> ".py"]
\* The wrapper script a manual npx installation writes into its directory.
PathRunSh == [stem |-> "run", ext |-> ".sh"]

\* A directory whose name ends in .js.
PathDirJs == [stem |-> "dir", ext |-> ".js"]

\* What is on disk at each path: "file", "dir" or "none".
FileKind(p) ==
  CASE p = PathAJs -> "file"
    [] p = PathBPy -> "file"
    [] p = PathCPy -> "file"
    [] p = PathRunSh -> "file"
    [] p = PathDirJs -> "dir"
    [] OTHER -> "none"

\* The tools the server script at a path lists once the handshake is done.
ScriptTools(p) ==
  CASE p = PathAJs -> <<"X">>
    [] p = PathBPy -> <<"X", "Y">>
    [] p = PathCPy -> <<"Y">>
    [] OTHER -> <<>>

EnvStrings == {"{}", "{bad"}

\* JSON.parse of an env string: the kind of value, or "error" when it throws.
JsonKind(s) ==
  CASE s = "{}" -> "object"
    [] s = "[]" -> "array"
    [] s = "null" -> "null"
    [] OTHER -> "error"

Descriptors == [name : ServerNames, path : Paths, env : EnvStrings]

\* Tool calls the model may ask for: a function name and an arguments string.
CallNames == {"X", "Y"}
CallKinds ==
  { [name |-> "X", arguments |-> "{}"],
    [name |-> "Y", arguments |-> "{}"],
    [name |-> "X", arguments |-> "{bad json"] }

RECURSIVE SeqsUpTo(_, _)
SeqsUpTo(S, n) ==
  IF n = 0 THEN {<<>>}
  ELSE LET shorter == SeqsUpTo(S, n - 1)
       IN shorter \cup {Append(s, x) : s \in {t \in shorter : Len(t) = n - 1}, x \in S}

VARIABLES
  servers,          \* body.servers: the descriptor list of the request
  pc,               \* where the request's async block stands
  att,              \* per descriptor: state of its initPromises callback
  hs,               \* per descriptor: state of toolsPromise (connect, then listTools)
  closeCalls,       \* per descriptor: number of close() calls on its client
  activeClients,    \* the Map, as the sequence of its entries in Map order
  iterationCount,
  currentMessages,  \* messages pushed by the loop (after initialMessages)
  frames,           \* frames written to the SSE writer, in order
  results,          \* the current batch: one record per tool call
  invoked,          \* per tool name: the clients callTool was issued to so far
  tearing,          \* clients whose close() of the finally block is pending
  streamClosed,     \* writer.close() was called
  catalog,          \* allAvailableTools, built once before the loop
  warned,           \* the console.warn of the duplicate tool name check was called
  readerGone,       \* the caller cancelled the readable side of the stream
  closeErrors,      \* clients whose close() rejected
  probe,            \* a request to /api/server-info, if one was made
  peer,             \* a second chat request, if one is in flight
  envs,             \* process.env and the environment handed to a spawned server
  single,           \* a request to the single-server chat route, if one was made
  page,             \* the chat page in the browser (handleSendMessage)
  initialMessages   \* body.messages: the message list the caller sent

\* What the handler itself never writes: set by its environment only.
offstage == <<probe, peer, envs, single, page>>
sideVars == <<readerGone, closeErrors, initialMessages, offstage>>

vars == <<servers, pc, att, hs, closeCalls, activeClients, iterationCount,
          currentMessages, frames, results, invoked, tearing, streamClosed,
          catalog, warned, sideVars>>

Idx == 1..Len(servers)

(* ------------------------------------------- initializeAllMcpClients    *)

\* Mutant of ValidateConfig: the extension is not looked at.
ValidateConfigAnyExtension(d) ==
  IF JsonKind(d.env) # "object" THEN "Invalid JSON Env"
  ELSE IF FileKind(d.path) = "none" THEN "Script not found"
  ELSE IF FileKind(d.path) # "file" THEN "Path must be a file"
  ELSE "ok"

\* Lines 60-80: the checks made before a transport or a client exists.
\* "ok", or the reason the callback throws.
ValidateConfig(d) ==
  IF JsonKind(d.env) # "object" THEN "Invalid JSON Env"
  ELSE IF FileKind(d.path) = "none" THEN "Script not found"
  ELSE IF FileKind(d.path) # "file" THEN "Path must be a file"
  ELSE IF d.path.ext \notin {".js", ".py"} THEN "Script must be .js or .py"
  ELSE "ok"

\* Map.prototype.set: a new key goes last, an existing key keeps its place
\* and gets the new value.
MapSet(m, key, value) ==
  IF \E k \in 1..Len(m) : m[k].name = key
  THEN [k \in 1..Len(m) |-> IF m[k].name = key THEN value ELSE m[k]]
  ELSE Append(m, value)

\* The entry stored at line 104 for descriptor i.
ClientInfo(i) ==
  [name |-> servers[i].name, client |-> i, tools |-> ScriptTools(servers[i].path)]

ToolNames(info) == {info.tools[k] : k \in 1..Len(info.tools)}

Range(f) == {f[x] : x \in DOMAIN f}

TypeOK ==
  /\ Len(servers) <= MaxServers
  /\ \A i \in Idx : /\ servers[i].name \in ServerNames
                     /\ servers[i].path \in Paths \cup {PathCPy, PathRunSh, PathDirJs}
                     /\ servers[i].env \in EnvStrings \cup {"[]", "null"}
  /\ \A k \in 1..Len(results) : results[k].status \in {"pending", "settled"}
  /\ pc \in {"idle", "init", "model", "tools", "teardown", "closed"}
  /\ iterationCount \in 0..MAX_TOOL_ITERATIONS
  /\ streamClosed \in BOOLEAN

\* A response of /api/server-info: its status and its JSON body, which is an
\* object with `tools` or an object with `error` ("list": an array, with its
\* items).
NoResponse == [status |-> 0, shape |-> "none", tools |-> <<>>, error |-> "", items |-> <<>>]

\* body.serverPath left out.
NoPath == [stem |-> "", ext |-> ""]

NoBody == [hasServers |-> FALSE, servers |-> <<>>, serverPath |-> NoPath, serverEnv |-> ""]

\* No request to /api/server-info was made.
NoProbe == [pc |-> "none", body |-> NoBody, closeCalls |-> 0, error |-> "",
            response |-> NoResponse]

\* Environment tables map a key to a value: its JavaScript type and its text.
EnvKeys == {"K1", "K2"}
AbsentValue == [type |-> "absent", text |-> ""]
UndefinedValue == [type |-> "undefined", text |-> ""]

\* No process environment looked at yet, nothing spawned.
NoEnvs == [pc |-> "none",
           processEnv |-> [k \in EnvKeys |-> AbsentValue],
           parsedEnv |-> [k \in EnvKeys |-> AbsentValue],
           handed |-> [k \in EnvKeys |-> AbsentValue]]

\* The one message of the list the caller sends.
UserMessage ==
  [role |-> "user", has_tool_calls |-> FALSE, tool_calls |-> <<>>,
   tool_call_id |-> <<0, 0>>, content |-> "question"]

\* No request to the single-server chat route was made.  mcpClient: the
\* variable of POST is set; connected: the connect of a client succeeded;
\* frames: the types of the frames written; pending: tool calls of the
\* current response still to run.
NoSingle == [pc |-> "none", mcpClient |-> FALSE, connected |-> FALSE, closeCalls |-> 0,
             frames |-> <<>>, writerClosed |-> FALSE, iterationCount |-> 0, pending |-> 0]

\* The page before the user sends anything.  messages: the displayed
\* conversation, as tags; sends: handleSendMessage calls so far; delivered:
\* the frames the stream of the current send has handed over, in order;
\* shownBefore: the length of messages when the stream of the current send
\* was opened.
NoPage == [pc |-> "idle", isLoading |-> FALSE, messages |-> <<>>, sends |-> 0,
           delivered |-> <<>>, shownBefore |-> 0]

\* No second chat request was made.
NoPeer == [pc |-> "none", att |-> <<>>, pool |-> <<>>, called |-> {}, closed |-> {}]

\* The state in which the request with the descriptor list `list` arrives.
RequestArrives(list) ==
  /\ servers = list
  /\ pc = "idle"
  /\ att = [i \in Idx |-> "none"]
  /\ hs = [i \in Idx |-> "none"]
  /\ closeCalls = [i \in Idx |-> 0]
  /\ activeClients = <<>>
  /\ iterationCount = 0
  /\ currentMessages = <<>>
  /\ frames = <<>>
  /\ results = <<>>
  /\ invoked = [n \in CallNames |-> {}]
  /\ tearing = {}
  /\ streamClosed = FALSE
  /\ catalog = <<>>
  /\ warned = FALSE
  /\ readerGone = FALSE
  /\ closeErrors = {}
  /\ probe = NoProbe
  /\ peer = NoPeer
  /\ envs = NoEnvs
  /\ single = NoSingle
  /\ page = NoPage
  /\ initialMessages = <<UserMessage>>

Init == \E list \in SeqsUpTo(Descriptors, MaxServers) : RequestArrives(list)

(* ------------------------------------------------------------ SSE frames *)
MessageFrame(m) == [type |-> "message", message |-> m]
DoneFrame == [type |-> "done"]

\* writer.write is not awaited: once the readable side is cancelled the write
\* is rejected, the chunk is dropped and the rejection goes unobserved.
sendMessage(fs, data) == IF readerGone THEN fs ELSE Append(fs, data)

\* Mutant of sendError: the error path also signals completion.
sendErrorThenDone(fs, errorMessage) ==
  sendMessage(sendMessage(fs, [type |-> "error", error |-> errorMessage]), DoneFrame)

sendError(fs, errorMessage) == sendMessage(fs, [type |-> "error", error |-> errorMessage])

\* The finally block of the async block, up to its await: close() is called
\* on the client of every Map value.
PoolClients(m) == {m[k].client : k \in 1..Len(m)}

\* Mutant of BeginTeardown: a cancelled stream makes the handler return
\* without closing the clients.
BeginTeardownUnlessDropped(fs) ==
  /\ frames' = fs
  /\ closeCalls' = [i \in Idx |-> IF i \in PoolClients(activeClients) /\ ~readerGone
                                  THEN closeCalls[i] + 1 ELSE closeCalls[i]]
  /\ tearing' = IF readerGone THEN {} ELSE PoolClients(activeClients)
  /\ pc' = "teardown"

BeginTeardown(fs) ==
  /\ frames' = fs
  /\ closeCalls' = [i \in Idx |-> IF i \in PoolClients(activeClients)
                                  THEN closeCalls[i] + 1 ELSE closeCalls[i]]
  /\ tearing' = PoolClients(activeClients)
  /\ pc' = "teardown"

\* The request arrives: the stream is set up and the async block runs
\* initializeAllMcpClients up to the first await of every map callback.
\* A descriptor that fails a check throws before its client exists; the
\* others have a transport and a client and wait on Promise.race.
Post ==
  /\ pc = "idle"
  /\ pc' = "init"
  /\ att' = [i \in Idx |-> IF ValidateConfig(servers[i]) = "ok" THEN "racing" ELSE "failed"]
  /\ hs' = [i \in Idx |-> IF ValidateConfig(servers[i]) = "ok" THEN "pending" ELSE "none"]
  /\ UNCHANGED <<sideVars, catalog, warned, servers, closeCalls, activeClients, iterationCount,
                 currentMessages, frames, results, invoked, tearing, streamClosed>>

\* Mutant of CatchClose: one descriptor's failure discards the others' entries.
CatchCloseAbortsBatch(i) ==
  /\ att' = [att EXCEPT ![i] = "closing"]
  /\ closeCalls' = [closeCalls EXCEPT ![i] = @ + 1]
  /\ activeClients' = <<>>

\* Mutant of CatchClose: the partially connected client is not closed.
CatchCloseSkipsClose(i) ==
  /\ att' = [att EXCEPT ![i] = "closing"]
  /\ closeCalls' = closeCalls
  /\ activeClients' = activeClients

\* The catch block of a map callback whose client exists: close() is called
\* and awaited.
CatchClose(i) ==
  /\ att' = [att EXCEPT ![i] = "closing"]
  /\ closeCalls' = [closeCalls EXCEPT ![i] = @ + 1]
  /\ activeClients' = activeClients

\* Lines 97-104: the race was won by toolsPromise.
StoreClient(i) ==
  /\ att' = [att EXCEPT ![i] = "connected"]
  /\ activeClients' = MapSet(activeClients, servers[i].name, ClientInfo(i))
  /\ closeCalls' = closeCalls

\* Mutant of LateHandshake: the entry is stored whenever toolsPromise settles.
LateHandshakeStores(i) ==
  /\ activeClients' = MapSet(activeClients, servers[i].name, ClientInfo(i))
  /\ UNCHANGED <<att, closeCalls>>

\* What a settled handshake does to a callback that no longer awaits the race.
LateHandshake(i) == UNCHANGED <<att, activeClients, closeCalls>>

\* toolsPromise rejects: connect failed (spawn, handshake) or listTools failed.
ToolsPromiseRejects(i) ==
  /\ i \in Idx
  /\ hs[i] = "pending"
  /\ hs' = [hs EXCEPT ![i] = "rejected"]
  /\ IF att[i] = "racing" THEN CatchClose(i) ELSE LateHandshake(i)
  /\ UNCHANGED <<sideVars, catalog, warned, servers, pc, iterationCount, currentMessages, frames,
                 results, invoked, tearing, streamClosed>>

\* toolsPromise resolves: connect and then listTools succeeded.
ToolsPromiseResolves(i) ==
  /\ i \in Idx
  /\ hs[i] = "pending"
  /\ hs' = [hs EXCEPT ![i] = "resolved"]
  /\ IF att[i] = "racing" THEN StoreClient(i) ELSE LateHandshake(i)
  /\ UNCHANGED <<sideVars, catalog, warned, servers, pc, iterationCount, currentMessages, frames,
                 results, invoked, tearing, streamClosed>>

\* Mutant of TimeoutFires: the race has no timer.
TimeoutFiresNever(i) ==
  /\ FALSE
  /\ UNCHANGED vars

\* The setTimeout of line 94 fires while the callback awaits the race.
TimeoutFires(i) ==
  /\ i \in Idx
  /\ att[i] = "racing"
  /\ CatchClose(i)
  /\ UNCHANGED <<sideVars, catalog, warned, servers, pc, hs, iterationCount, currentMessages, frames,
                 results, invoked, tearing, streamClosed>>

\* The close() awaited in the catch block returns or throws: both ignored.
CatchCloseSettles(i) ==
  /\ i \in Idx
  /\ att[i] = "closing"
  /\ att' = [att EXCEPT ![i] = "failed"]
  /\ UNCHANGED <<sideVars, catalog, warned, servers, pc, hs, closeCalls, activeClients, iterationCount,
                 currentMessages, frames, results, invoked, tearing, streamClosed>>

AllSettled == \A i \in Idx : att[i] \in {"connected", "failed"}

(* ------------------------------------------------------- the tool loop   *)

\* Messages keep their role, whether the tool_calls field is there and the
\* ids of the calls it holds, the call id a tool message answers, and a tag for
\* the text.
NoId == <<0, 0>>
AssistantMessage(has, ids) ==
  [role |-> "assistant", has_tool_calls |-> has, tool_calls |-> ids,
   tool_call_id |-> NoId, content |-> "reply"]
\* Mutant of ToolMessage: the message is built without tool_call_id.
ToolMessageNoId(id) ==
  [role |-> "tool", has_tool_calls |-> FALSE, tool_calls |-> <<>>,
   tool_call_id |-> NoId, content |-> "result"]

ToolMessage(id) ==
  [role |-> "tool", has_tool_calls |-> FALSE, tool_calls |-> <<>>,
   tool_call_id |-> id, content |-> "result"]
warningMessage ==
  [role |-> "assistant", has_tool_calls |-> FALSE, tool_calls |-> <<>>,
   tool_call_id |-> NoId, content |-> "warning"]

\* Lines 205-213: the first entry, in Map order, whose toolNames has the name;
\* its client, or 0 when no entry has it.
RECURSIVE ResolveFrom(_, _, _)
ResolveFrom(m, functionName, k) ==
  IF k > Len(m) THEN 0
  ELSE IF functionName \in ToolNames(m[k]) THEN m[k].client
  ELSE ResolveFrom(m, functionName, k + 1)

\* Mutant of Resolve: the scan has no break, so the last match wins.
RECURSIVE ResolveLastFrom(_, _, _, _)
ResolveLastFrom(m, functionName, k, found) ==
  IF k > Len(m) THEN found
  ELSE ResolveLastFrom(m, functionName, k + 1,
                       IF functionName \in ToolNames(m[k]) THEN m[k].client ELSE found)

ResolveLast(m, functionName) == ResolveLastFrom(m, functionName, 1, 0)

\* Mutant of Resolve: the break is taken after the first entry, match or not.
ResolveFirstOnly(m, functionName) ==
  IF Len(m) > 0 /\ functionName \in ToolNames(m[1]) THEN m[1].client ELSE 0

Resolve(m, functionName) == ResolveFrom(m, functionName, 1)

\* Mutant of StartToolCall: targetClientInfo is used without the test of
\* line 215.
StartToolCallNoLookupTest(id, call) ==
  IF JsonKind(call.arguments) = "error"
  THEN [id |-> id, name |-> call.name, arguments |-> call.arguments,
        status |-> "settled", content |-> "parse_error", target |-> 0]
  ELSE [id |-> id, name |-> call.name, arguments |-> call.arguments,
        status |-> "pending", content |-> "none",
        target |-> Resolve(activeClients, call.name)]

\* Mutant of StartToolCall: the arguments string is handed on unparsed.
StartToolCallNoParse(id, call) ==
  IF Resolve(activeClients, call.name) = 0
  THEN [id |-> id, name |-> call.name, arguments |-> call.arguments,
        status |-> "settled", content |-> "not_found", target |-> 0]
  ELSE [id |-> id, name |-> call.name, arguments |-> call.arguments,
        status |-> "pending", content |-> "none",
        target |-> Resolve(activeClients, call.name)]

\* Lines 190-224: one toolCallPromises callback up to its first await.
StartToolCall(id, call) ==
  IF JsonKind(call.arguments) = "error"
  THEN [id |-> id, name |-> call.name, arguments |-> call.arguments,
        status |-> "settled", content |-> "parse_error", target |-> 0]
  ELSE IF Resolve(activeClients, call.name) = 0
  THEN [id |-> id, name |-> call.name, arguments |-> call.arguments,
        status |-> "settled", content |-> "not_found", target |-> 0]
  ELSE [id |-> id, name |-> call.name, arguments |-> call.arguments,
        status |-> "pending", content |-> "none",
        target |-> Resolve(activeClients, call.name)]

\* Mutant of AfterLoop: the warning test is strict.
AfterLoopStrictTest(msgs, fs, iter) ==
  /\ currentMessages' = msgs
  /\ iterationCount' = iter
  /\ BeginTeardown(sendMessage(IF iter > MAX_TOOL_ITERATIONS
                               THEN sendMessage(fs, MessageFrame(warningMessage))
                               ELSE fs,
                               DoneFrame))

\* Lines 255-261 and the finally block up to its await.
AfterLoop(msgs, fs, iter) ==
  /\ currentMessages' = msgs
  /\ iterationCount' = iter
  /\ BeginTeardown(sendMessage(IF iter >= MAX_TOOL_ITERATIONS
                               THEN sendMessage(fs, MessageFrame(warningMessage))
                               ELSE fs,
                               DoneFrame))

\* Mutant of LoopHead: the while test admits one more pass.
LoopHeadOneMore(msgs, fs, iter) ==
  IF iter <= MAX_TOOL_ITERATIONS
  THEN /\ iterationCount' = iter + 1
       /\ currentMessages' = msgs
       /\ frames' = fs
       /\ pc' = "model"
       /\ UNCHANGED <<closeCalls, tearing>>
  ELSE AfterLoop(msgs, fs, iter)

\* Line 170: the while test, and the model call of lines 171-179 behind it.
LoopHead(msgs, fs, iter) ==
  IF iter < MAX_TOOL_ITERATIONS
  THEN /\ iterationCount' = iter + 1
       /\ currentMessages' = msgs
       /\ frames' = fs
       /\ pc' = "model"
       /\ UNCHANGED <<closeCalls, tearing>>
  ELSE AfterLoop(msgs, fs, iter)

\* Lines 177-178: the tools and tool_choice handed to completions.create;
\* `present` is FALSE for undefined.
toolsParam(cat) ==
  [present |-> Len(cat) > 0, tools |-> IF Len(cat) > 0 THEN cat ELSE <<>>]
toolChoiceParam(cat) == IF Len(cat) > 0 THEN "auto" ELSE "undefined"

\* Mutant of NoServerAvailable: the descriptor list is not looked at.
NoServerAvailableAnyList(m, list) == Len(m) = 0

\* Mutant of NoServerAvailable: the test on the descriptor list is off by one.
NoServerAvailableOffByOne(m, list) == Len(m) = 0 /\ Len(list) > 1

\* Line 150: activeClients.size === 0 && servers.length > 0.
NoServerAvailable(m, list) == Len(m) = 0 /\ Len(list) > 0

\* Lines 155-156: the catalog handed to the model, the tools of every entry
\* in Map order (a tool is kept as its name).
\* Mutant of allAvailableTools: the entries are taken last to first.
RECURSIVE allAvailableToolsReversed(_)
allAvailableToolsReversed(m) ==
  IF m = <<>> THEN <<>> ELSE allAvailableToolsReversed(Tail(m)) \o Head(m).tools

RECURSIVE allAvailableTools(_)
allAvailableTools(m) ==
  IF m = <<>> THEN <<>> ELSE Head(m).tools \o allAvailableTools(Tail(m))

\* Mutant of DuplicateToolNames: the number of tools is compared with the
\* number of servers.
DuplicateToolNamesByServerCount(m) ==
  Len(allAvailableTools(m)) # Len(m)

\* Lines 159-161: allToolNames.length !== uniqueToolNames.size.
DuplicateToolNames(m) ==
  Len(allAvailableTools(m)) # Cardinality(Range(allAvailableTools(m)))

\* Promise.all(initPromises) resolves: lines 148-167.
InitReturns ==
  /\ pc = "init"
  /\ AllSettled
  /\ IF NoServerAvailable(activeClients, servers)
     THEN /\ BeginTeardown(sendError(frames, "Failed to connect to any configured MCP server."))
          /\ UNCHANGED <<iterationCount, currentMessages>>
     ELSE LoopHead(<<>>, frames, 0)
  /\ catalog' = IF NoServerAvailable(activeClients, servers)
                THEN catalog ELSE allAvailableTools(activeClients)
  /\ warned' = IF NoServerAvailable(activeClients, servers)
               THEN warned ELSE DuplicateToolNames(activeClients)
  /\ UNCHANGED <<sideVars, servers, att, hs, activeClients, results, invoked, streamClosed>>

\* The completion call resolves with a message that has a tool_calls array.
ModelReturnsToolCalls(batch) ==
  /\ pc = "model"
  /\ LET ids == [k \in 1..Len(batch) |-> <<iterationCount, k>>]
         responseMessage == AssistantMessage(TRUE, ids)
     IN /\ currentMessages' = Append(currentMessages, responseMessage)
        /\ frames' = sendMessage(frames, MessageFrame(responseMessage))
        /\ results' = [k \in 1..Len(batch) |-> StartToolCall(ids[k], batch[k])]
        /\ invoked' = [n \in CallNames |-> invoked[n] \cup
                         {StartToolCall(ids[k], batch[k]).target :
                            k \in {j \in 1..Len(batch) : /\ batch[j].name = n
                                                          /\ StartToolCall(ids[j], batch[j]).status = "pending"}}]
  /\ pc' = "tools"
  /\ UNCHANGED <<sideVars, catalog, warned, servers, att, hs, closeCalls, activeClients, iterationCount,
                 tearing, streamClosed>>

\* The completion call resolves with a message without tool_calls: break.
ModelReturnsNoToolCalls ==
  /\ pc = "model"
  /\ LET responseMessage == AssistantMessage(FALSE, <<>>)
     IN AfterLoop(Append(currentMessages, responseMessage),
                  sendMessage(frames, MessageFrame(responseMessage)),
                  iterationCount)
  /\ UNCHANGED <<sideVars, catalog, warned, servers, att, hs, activeClients, results, invoked, streamClosed>>

\* Mutant of ModelFails: the catch block runs but the pool is not closed.
ModelFailsLeavesPoolOpen ==
  /\ pc = "model"
  /\ frames' = sendError(frames, "model call failed")
  /\ tearing' = {}
  /\ pc' = "teardown"
  /\ UNCHANGED <<sideVars, catalog, warned, servers, att, hs, closeCalls, activeClients, iterationCount,
                 currentMessages, results, invoked, streamClosed>>

\* The completion call rejects: the catch block of line 263.
ModelFails ==
  /\ pc = "model"
  /\ BeginTeardown(sendError(frames, "model call failed"))
  /\ UNCHANGED <<sideVars, catalog, warned, servers, att, hs, activeClients, iterationCount,
                 currentMessages, results, invoked, streamClosed>>

\* Mutant of ToolCallSettles: a rejected callTool is not caught in the
\* callback, so Promise.all rejects and the outer catch block runs.
ToolCallSettlesUncaught(k, outcome) ==
  /\ pc = "tools"
  /\ k \in 1..Len(results)
  /\ results[k].status = "pending"
  /\ IF outcome = "exec_error"
     THEN /\ BeginTeardown(sendError(frames, "tool call failed"))
          /\ results' = <<>>
     ELSE /\ results' = [results EXCEPT ![k] = [@ EXCEPT !.status = "settled", !.content = outcome]]
          /\ UNCHANGED <<pc, closeCalls, frames, tearing>>
  /\ UNCHANGED <<sideVars, catalog, warned, servers, att, hs, activeClients, iterationCount,
                 currentMessages, invoked, streamClosed>>

\* Mutant of ToolCallSettles: the entry of a client whose callTool rejected is
\* deleted from the Map.
ToolCallSettlesEvicts(k, outcome) ==
  /\ pc = "tools"
  /\ k \in 1..Len(results)
  /\ results[k].status = "pending"
  /\ results' = [results EXCEPT ![k] = [@ EXCEPT !.status = "settled", !.content = outcome]]
  /\ activeClients' = IF outcome = "exec_error"
                      THEN SelectSeq(activeClients, LAMBDA e : e.client # results[k].target)
                      ELSE activeClients
  /\ UNCHANGED <<sideVars, catalog, warned, servers, pc, att, hs, closeCalls, iterationCount,
                 currentMessages, frames, invoked, tearing, streamClosed>>

\* callTool on the target client resolves ("ok") or rejects ("exec_error").
ToolCallSettles(k, outcome) ==
  /\ pc = "tools"
  /\ k \in 1..Len(results)
  /\ results[k].status = "pending"
  /\ results' = [results EXCEPT ![k] = [@ EXCEPT !.status = "settled", !.content = outcome]]
  /\ UNCHANGED <<sideVars, catalog, warned, servers, pc, att, hs, closeCalls, activeClients, iterationCount,
                 currentMessages, frames, invoked, tearing, streamClosed>>

\* Mutant of SendAll: the tool messages are pushed but not written.
SendAllNone(fs, msgs) == fs

\* frames with one message frame per element of msgs, in order.
RECURSIVE SendAll(_, _)
SendAll(fs, msgs) ==
  IF msgs = <<>> THEN fs
  ELSE SendAll(sendMessage(fs, MessageFrame(Head(msgs))), Tail(msgs))

\* Mutant of BatchSettles: each callback pushes its own message when it
\* settles, so the calls answered without an await come first.
AnsweredAtOnce(r) == r.target = 0
AnsweredByCallTool(r) == r.target # 0

BatchSettlesInSettleOrder ==
  /\ pc = "tools"
  /\ \A k \in 1..Len(results) : results[k].status = "settled"
  /\ LET settled == SelectSeq(results, AnsweredAtOnce) \o SelectSeq(results, AnsweredByCallTool)
         toolResponses == [k \in 1..Len(settled) |-> ToolMessage(settled[k].id)]
     IN LoopHead(currentMessages \o toolResponses, SendAll(frames, toolResponses),
                 iterationCount)
  /\ results' = <<>>
  /\ UNCHANGED <<sideVars, catalog, warned, servers, att, hs, activeClients, invoked, streamClosed>>

\* Mutant of BatchSettles: the loop waits for the first call to settle, not
\* for all of them.
BatchSettlesOnFirst ==
  /\ pc = "tools"
  /\ \/ results = <<>>
     \/ \E k \in 1..Len(results) : results[k].status = "settled"
  /\ LET toolResponses == [k \in 1..Len(results) |-> ToolMessage(results[k].id)]
     IN LoopHead(currentMessages \o toolResponses, SendAll(frames, toolResponses),
                 iterationCount)
  /\ results' = <<>>
  /\ UNCHANGED <<sideVars, catalog, warned, servers, att, hs, activeClients, invoked, streamClosed>>

\* Promise.all(toolCallPromises) resolves: lines 237-247, then the loop head.
\* Mutant of BatchSettles: on the pass that uses up the budget the results
\* of the batch are thrown away.
BatchSettlesDropsLast ==
  /\ pc = "tools"
  /\ \A k \in 1..Len(results) : results[k].status = "settled"
  /\ LET toolResponses == IF iterationCount = MAX_TOOL_ITERATIONS THEN <<>>
                          ELSE [k \in 1..Len(results) |-> ToolMessage(results[k].id)]
     IN LoopHead(currentMessages \o toolResponses, SendAll(frames, toolResponses),
                 iterationCount)
  /\ results' = <<>>
  /\ UNCHANGED <<sideVars, catalog, warned, servers, att, hs, activeClients, invoked, streamClosed>>

\* Mutant of BatchSettles: the tool messages are put in front of the history.
BatchSettlesUnshift ==
  /\ pc = "tools"
  /\ \A k \in 1..Len(results) : results[k].status = "settled"
  /\ LET toolResponses == [k \in 1..Len(results) |-> ToolMessage(results[k].id)]
     IN LoopHead(toolResponses \o currentMessages, SendAll(frames, toolResponses),
                 iterationCount)
  /\ results' = <<>>
  /\ UNCHANGED <<sideVars, catalog, warned, servers, att, hs, activeClients, invoked, streamClosed>>

BatchSettles ==
  /\ pc = "tools"
  /\ \A k \in 1..Len(results) : results[k].status = "settled"
  /\ LET toolResponses == [k \in 1..Len(results) |-> ToolMessage(results[k].id)]
     IN LoopHead(currentMessages \o toolResponses, SendAll(frames, toolResponses),
                 iterationCount)
  /\ results' = <<>>
  /\ UNCHANGED <<sideVars, catalog, warned, servers, att, hs, activeClients, invoked, streamClosed>>

\* A close() of the finally block returns or rejects (the rejection is caught).
TeardownCloseSettles(c) ==
  /\ pc = "teardown"
  /\ c \in tearing
  /\ tearing' = tearing \ {c}
  /\ UNCHANGED <<sideVars, catalog, warned, servers, pc, att, hs, closeCalls, activeClients, iterationCount,
                 currentMessages, frames, results, invoked, streamClosed>>

\* Promise.all(closePromises) resolves: lines 274-277.
TeardownDone ==
  /\ pc = "teardown"
  /\ tearing = {}
  /\ activeClients' = <<>>
  /\ streamClosed' = TRUE
  /\ pc' = "closed"
  /\ UNCHANGED <<sideVars, catalog, warned, servers, att, hs, closeCalls, iterationCount, currentMessages,
                 frames, results, invoked, tearing>>

Connecting ==
  \E i \in 1..MaxServers :
    \/ ToolsPromiseResolves(i)
    \/ ToolsPromiseRejects(i)
    \/ TimeoutFires(i)
    \/ CatchCloseSettles(i)

Conversing ==
  \/ InitReturns
  \/ ModelReturnsNoToolCalls
  \/ ModelFails
  \/ \E k \in 1..MaxBatch, outcome \in {"ok", "exec_error"} : ToolCallSettles(k, outcome)
  \/ BatchSettles
  \/ \E c \in 1..MaxServers : TeardownCloseSettles(c)
  \/ TeardownDone

\* A request with any descriptor list; the model asks for at most one tool
\* call per response.
Next ==
  \/ Post
  \/ Connecting
  \/ Conversing
  \/ \E call \in CallKinds : ModelReturnsToolCalls(<<call>>)

Spec == Init /\ [][Next]_vars

\* A request naming two servers that share the tool "X", or no server; the
\* model asks for up to MaxBatch tool calls per response.
LoopServers ==
  { <<>>,
    << [name |-> "A", path |-> PathAJs, env |-> "{}"],
       [name |-> "B", path |-> PathBPy, env |-> "{}"] >> }

InitLoop ==
  /\ Init
  /\ servers \in LoopServers

NextLoop ==
  \/ Post
  \/ Connecting
  \/ Conversing
  \/ \E batch \in SeqsUpTo(CallKinds, MaxBatch) : ModelReturnsToolCalls(batch)

SpecLoop == InitLoop /\ [][NextLoop]_vars

\* A request naming one server that has "X" but not "Y", or no server; the
\* model asks for up to MaxBatch tool calls per response.  Every await of the
\* request settles: a handshake resolves, rejects or loses against its timer,
\* and the model calls, tool calls and close() calls the request waits on
\* return or fail.
SoloServers ==
  { <<>>, << [name |-> "A", path |-> PathAJs, env |-> "{}"] >> }

InitSolo ==
  /\ Init
  /\ servers \in SoloServers

LiveSpecSolo == InitSolo /\ [][NextLoop]_vars /\ WF_vars(NextLoop)

\* Mutant of CatchCloseRejects: the catch block lets the rejection of close()
\* through, so Promise.all(initPromises) rejects and the outer catch runs.
CatchCloseRejectsUncaught(i) ==
  /\ i \in Idx
  /\ att[i] = "closing"
  /\ pc = "init"
  /\ att' = [att EXCEPT ![i] = "failed"]
  /\ closeErrors' = closeErrors \cup {i}
  /\ BeginTeardown(sendError(frames, "close failed"))
  /\ UNCHANGED <<offstage, initialMessages, readerGone, catalog, warned, servers, hs, activeClients, iterationCount,
                 currentMessages, results, invoked, streamClosed>>

\* The close() awaited in the catch block of line 110 rejects: `catch {}`.
CatchCloseRejects(i) ==
  /\ i \in Idx
  /\ att[i] = "closing"
  /\ att' = [att EXCEPT ![i] = "failed"]
  /\ closeErrors' = closeErrors \cup {i}
  /\ UNCHANGED <<offstage, initialMessages, readerGone, catalog, warned, servers, pc, hs, closeCalls, activeClients,
                 iterationCount, currentMessages, frames, results, invoked, tearing,
                 streamClosed>>

\* A close() of the finally block rejects: the .catch of line 271 logs it.
TeardownCloseRejects(c) ==
  /\ pc = "teardown"
  /\ c \in tearing
  /\ tearing' = tearing \ {c}
  /\ closeErrors' = closeErrors \cup {c}
  /\ UNCHANGED <<offstage, initialMessages, readerGone, catalog, warned, servers, pc, att, hs, closeCalls, activeClients,
                 iterationCount, currentMessages, frames, results, invoked, streamClosed>>

\* A request naming the two servers of LoopServers, or none, in which a
\* close() may reject wherever the handler calls it.  Every await of the
\* request settles.
NextCloseFail ==
  \/ Next
  \/ \E i \in 1..MaxServers : CatchCloseRejects(i) \/ TeardownCloseRejects(i)

LiveSpecCloseFail == InitLoop /\ [][NextCloseFail]_vars /\ WF_vars(NextCloseFail)

\* A request naming the two servers of LoopServers, or none, where a server
\* may never answer its handshake: only the handler's own steps, the timers
\* and the model, tool and close() calls are sure to come to an end.
Runtime ==
  \/ Post
  \/ Conversing
  \/ \E call \in CallKinds : ModelReturnsToolCalls(<<call>>)
  \/ \E i \in 1..MaxServers : TimeoutFires(i) \/ CatchCloseSettles(i)

LiveSpecJoin == InitLoop /\ [][Next]_vars /\ WF_vars(Runtime)

\* The caller cancels the readable side of the stream returned at line 282.
\* Nothing in the handler observes it.
CallerDrops ==
  /\ pc # "idle"
  /\ ~readerGone
  /\ readerGone' = TRUE
  /\ UNCHANGED <<servers, pc, att, hs, closeCalls, activeClients, iterationCount,
                 currentMessages, frames, results, invoked, tearing, streamClosed,
                 catalog, warned, closeErrors, initialMessages, offstage>>

\* A request naming the two servers of LoopServers, or none, whose caller may
\* stop reading at any time.  The handler's own steps, the timers and the
\* calls it awaits (handshakes, model calls, tool calls, close() calls) all
\* come to an end; the caller is free to drop the stream or not.
NextDrop == Next \/ CallerDrops

LiveSpecDrop == InitLoop /\ [][NextDrop]_vars /\ WF_vars(Next)

\* A request naming two servers whose tool lists share no name (A: "X",
\* B: "Y"), or no server; the model asks for at most one tool call per
\* response.
RouteServers ==
  { <<>>,
    << [name |-> "A", path |-> PathAJs, env |-> "{}"],
       [name |-> "B", path |-> PathCPy, env |-> "{}"] >> }

InitRoute == \E list \in RouteServers : RequestArrives(list)

SpecRoute == InitRoute /\ [][Next]_vars

(* ------------------------------- install-manual-server: POST (lines 66-177) *)

\* Manual installation requests.  For the git type the repository is taken
\* to clone and its commands to succeed; scriptPath is the path the caller
\* names inside the clone.  "" is a field left out.
InstallTypes == {"git", "npx"}
InstallRequests ==
  [type : InstallTypes, name : ServerNames \cup {""}, env : EnvStrings \cup {""},
   scriptPath : Paths, npxCommand : {"", "npx -y srv"}]

\* Lines 90-151: the path of the script the installation leaves behind.
finalScriptPath(data) ==
  IF data.type = "git" THEN data.scriptPath ELSE PathRunSh

\* The status of the response: 400 on a missing field (line 74), 500 on a
\* throw (line 175: no npx command, fs.access of the final path fails), else
\* 200 with the configuration of lines 162-168.
InstallStatus(data) ==
  IF data.name = "" \/ data.env = "" THEN 400
  ELSE IF data.type = "npx" /\ data.npxCommand = "" THEN 500
  ELSE IF FileKind(finalScriptPath(data)) = "none" THEN 500
  ELSE 200

installedServerConfig(data) ==
  [name |-> data.name, path |-> finalScriptPath(data), env |-> data.env]

\* A chat request whose one descriptor is the configuration a successful
\* manual installation returned, handed over as it is.
InitInstall ==
  \E data \in InstallRequests :
    /\ InstallStatus(data) = 200
    /\ RequestArrives(<<installedServerConfig(data)>>)

SpecInstall == InitInstall /\ [][Next]_vars

(* ------------------------------------- server-info: POST (lines 8-127) *)

\* Request bodies: any of `servers` (as the page sends it), `serverPath` and
\* `serverEnv` may be there or not.
ProbeDescriptors == [name : ServerNames, path : {PathAJs, PathGone}, env : {"{}"}]
ProbeBodies ==
  [hasServers : {TRUE}, servers : SeqsUpTo(ProbeDescriptors, MaxServers),
   serverPath : Paths \cup {PathRunSh, NoPath}, serverEnv : EnvStrings \cup {""}]
  \cup
  [hasServers : {FALSE}, servers : {<<>>},
   serverPath : Paths \cup {PathRunSh, NoPath}, serverEnv : EnvStrings \cup {""}]

\* Lines 14-66: "ok", or the error text of the 400 response.
ProbeValidate(body) ==
  IF body.serverPath = NoPath THEN "Server path is required"
  ELSE IF JsonKind(IF body.serverEnv = "" THEN "{}" ELSE body.serverEnv) # "object"
       THEN "Invalid JSON format for Environment Variables"
  ELSE IF FileKind(body.serverPath) = "none" THEN "Server script not found"
  ELSE IF FileKind(body.serverPath) # "file" THEN "Server path must point to a file"
  ELSE IF body.serverPath.ext \notin {".js", ".py"}
       THEN "Server script must be a .js or .py file"
  ELSE "ok"

ErrorResponse(status, text) ==
  [status |-> status, shape |-> "error", tools |-> <<>>, error |-> text, items |-> <<>>]

ToolsResponse(tools) ==
  [status |-> 200, shape |-> "tools", tools |-> tools, error |-> "", items |-> <<>>]

\* The request arrives and runs up to the race of line 94, or returns 400.
ProbePost(body) ==
  /\ probe.pc = "none"
  /\ probe' = IF ProbeValidate(body) = "ok"
              THEN [probe EXCEPT !.pc = "racing", !.body = body]
              ELSE [probe EXCEPT !.pc = "done", !.body = body,
                                 !.response = ErrorResponse(400, ProbeValidate(body))]

\* The race is won by toolsPromise: close() is called and awaited (line 99).
ProbeToolsResolve ==
  /\ probe.pc = "racing"
  /\ probe' = [probe EXCEPT !.pc = "closing", !.closeCalls = @ + 1]

\* close() returns: the tools are the response (line 103).
ProbeCloseSettles ==
  /\ probe.pc = "closing"
  /\ probe' = [probe EXCEPT !.pc = "done",
                            !.response = ToolsResponse(ScriptTools(probe.body.serverPath))]

\* close() of line 99 rejects: the catch block runs with mcpClient still set
\* and calls close() again.
ProbeCloseRejects ==
  /\ probe.pc = "closing"
  /\ probe' = [probe EXCEPT !.pc = "catching", !.closeCalls = @ + 1, !.error = "close failed"]

\* The race is lost: connect or listTools rejects, or the timer of line 91
\* fires.  The catch block calls close().
ProbeRaceRejects(text) ==
  /\ probe.pc = "racing"
  /\ probe' = [probe EXCEPT !.pc = "catching", !.closeCalls = @ + 1, !.error = text]

\* close() in the catch block returns or rejects (lines 110-114): status 500.
ProbeCatchCloseSettles ==
  /\ probe.pc = "catching"
  /\ probe' = [probe EXCEPT !.pc = "done", !.response = ErrorResponse(500, probe.error)]

ProbeStep ==
  \/ \E body \in ProbeBodies : ProbePost(body)
  \/ ProbeToolsResolve
  \/ ProbeCloseSettles
  \/ ProbeCloseRejects
  \/ \E text \in {"connect failed", "Connection timed out after 30 seconds"} :
       ProbeRaceRejects(text)
  \/ ProbeCatchCloseSettles

\* Requests to /api/server-info; no chat request is made.
NextProbe ==
  /\ ProbeStep
  /\ UNCHANGED <<servers, pc, att, hs, closeCalls, activeClients, iterationCount,
                 currentMessages, frames, results, invoked, tearing, streamClosed,
                 catalog, warned, readerGone, closeErrors, initialMessages, peer, envs, single, page>>

InitProbe == RequestArrives(<<>>)

SpecProbe == InitProbe /\ [][NextProbe]_vars

(* ------------------------------------------ two chat requests at a time *)

\* The second request is kept to what it does with connections: its connect
\* step, the tool calls it dispatches and its teardown.  It names the same
\* servers as the first.  Its Client objects are numbered after the first's.
PeerClient(i) == MaxServers + i

PeerClients == {PeerClient(i) : i \in Idx}

\* Mutant of PoolOfRequest: the Map is one module-level object.
PoolOfRequestShared(r) == activeClients

\* Line 122: `let activeClients` is a binding of the invocation of POST, and
\* line 55 makes a new Map in every call of initializeAllMcpClients.
PoolOfRequest(r) == IF r = 1 THEN activeClients ELSE peer.pool

\* The second request arrives and starts its connects (as Post).
PeerPost ==
  /\ peer.pc = "none"
  /\ pc # "idle"
  /\ peer' = [peer EXCEPT !.pc = "init",
                          !.att = [i \in Idx |-> IF ValidateConfig(servers[i]) = "ok"
                                                 THEN "racing" ELSE "failed"]]

\* Its attempt i wins the race: line 104 stores the entry in its Map.
PeerConnects(i) ==
  /\ peer.pc = "init"
  /\ i \in Idx
  /\ peer.att[i] = "racing"
  /\ peer' = [peer EXCEPT !.att[i] = "connected",
                          !.pool = MapSet(@, servers[i].name,
                                          [name |-> servers[i].name, client |-> PeerClient(i),
                                           tools |-> ScriptTools(servers[i].path)])]

\* Its attempt i loses the race: the catch block closes the attempt's client.
PeerConnectFails(i) ==
  /\ peer.pc = "init"
  /\ i \in Idx
  /\ peer.att[i] = "racing"
  /\ peer' = [peer EXCEPT !.att[i] = "failed", !.closed = @ \cup {PeerClient(i)}]

\* Its initializeAllMcpClients returns.
PeerInitReturns ==
  /\ peer.pc = "init"
  /\ \A i \in Idx : peer.att[i] \in {"connected", "failed"}
  /\ peer' = [peer EXCEPT !.pc = "loop"]

\* It dispatches a tool call: lines 205-213 scan the Map of the request.
PeerCallsTool(functionName) ==
  /\ peer.pc = "loop"
  /\ Resolve(PoolOfRequest(2), functionName) # 0
  /\ peer' = [peer EXCEPT !.called = @ \cup {Resolve(PoolOfRequest(2), functionName)}]

\* Its finally block: close() on every client of the Map of the request.
PeerTeardown ==
  /\ peer.pc = "loop"
  /\ peer' = [peer EXCEPT !.pc = "closed",
                          !.closed = @ \cup PoolClients(PoolOfRequest(2))]

PeerStep ==
  /\ \/ PeerPost
     \/ \E i \in 1..MaxServers : PeerConnects(i) \/ PeerConnectFails(i)
     \/ PeerInitReturns
     \/ \E functionName \in CallNames : PeerCallsTool(functionName)
     \/ PeerTeardown
  /\ UNCHANGED <<servers, pc, att, hs, closeCalls, activeClients, iterationCount,
                 currentMessages, frames, results, invoked, tearing, streamClosed,
                 catalog, warned, readerGone, closeErrors, initialMessages, probe, envs, single, page>>

\* Two requests naming the two servers of LoopServers, in flight together.
InitPair ==
  RequestArrives(<< [name |-> "A", path |-> PathAJs, env |-> "{}"],
                    [name |-> "B", path |-> PathBPy, env |-> "{}"] >>)

NextPair == Next \/ PeerStep

SpecPair == InitPair /\ [][NextPair]_vars

\* A request naming server A, which can connect, and before or after it a
\* server B whose descriptor has one thing wrong: an env that does not parse,
\* an env that is JSON but no object, a path that is not there, a directory,
\* or a file that is neither .js nor .py.
FaultyDescriptors ==
  { [name |-> "B", path |-> PathBPy, env |-> "{bad"],
    [name |-> "B", path |-> PathBPy, env |-> "[]"],
    [name |-> "B", path |-> PathBPy, env |-> "null"],
    [name |-> "B", path |-> PathGone, env |-> "{}"],
    [name |-> "B", path |-> PathDirJs, env |-> "{}"],
    [name |-> "B", path |-> PathRunSh, env |-> "{}"] }

FaultyServers ==
  LET good == [name |-> "A", path |-> PathAJs, env |-> "{}"]
  IN {<<d, good>> : d \in FaultyDescriptors} \cup {<<good, d>> : d \in FaultyDescriptors}

InitFaulty == \E list \in FaultyServers : RequestArrives(list)

SpecFaulty == InitFaulty /\ [][Next]_vars

(* ----------------------------------- the environment of a spawned server *)

\* process.env: a key is not there, is there with the value undefined, or
\* has a string.
AmbientValues == {AbsentValue, UndefinedValue, [type |-> "string", text |-> "amb"]}

\* The values JSON.parse gives the keys of the descriptor's env object.
JsonValues ==
  { AbsentValue,
    [type |-> "string", text |-> "v"],
    [type |-> "number", text |-> "7"],
    [type |-> "boolean", text |-> "true"],
    [type |-> "null", text |-> "null"] }

\* String(value).
String(v) == [type |-> "string", text |-> v.text]

\* Line 66: every own value that is no string is replaced by String(value).
StringifyValues(parsed) ==
  [k \in EnvKeys |-> IF parsed[k].type \in {"absent", "string"} THEN parsed[k]
                     ELSE String(parsed[k])]

\* Lines 82-85: a new object with the entries whose value is not undefined.
cleanProcessEnv(env) ==
  [k \in EnvKeys |-> IF env[k] = UndefinedValue THEN AbsentValue ELSE env[k]]

\* Mutant of Spread: the entries of the first object win.
SpreadFirstWins(a, b) ==
  [k \in EnvKeys |-> IF a[k] # AbsentValue THEN a[k] ELSE b[k]]

\* Line 88: { ...a, ...b }.
Spread(a, b) ==
  [k \in EnvKeys |-> IF b[k] # AbsentValue THEN b[k] ELSE a[k]]

\* The server process starts with some environment.
ProcessStarts(ambient) ==
  /\ envs.pc = "none"
  /\ envs' = [envs EXCEPT !.pc = "started", !.processEnv = ambient]

\* Lines 61-88 for a descriptor whose env parses to the object `parsed`:
\* the env option of the transport.  process.env is read, never written.
SpawnEnv(parsed) ==
  /\ envs.pc \in {"started", "spawned"}
  /\ envs' = [envs EXCEPT !.pc = "spawned",
                          !.parsedEnv = parsed,
                          !.handed = Spread(cleanProcessEnv(envs.processEnv),
                                            StringifyValues(parsed))]

NextEnv ==
  /\ \/ \E ambient \in [EnvKeys -> AmbientValues] : ProcessStarts(ambient)
     \/ \E parsed \in [EnvKeys -> JsonValues] : SpawnEnv(parsed)
  /\ UNCHANGED <<servers, pc, att, hs, closeCalls, activeClients, iterationCount,
                 currentMessages, frames, results, invoked, tearing, streamClosed,
                 catalog, warned, readerGone, closeErrors, initialMessages, probe, peer, single, page>>

InitEnv == RequestArrives(<<>>)

SpecEnv == InitEnv /\ [][NextEnv]_vars

(* ------------------------------------------ the single-server chat route *)

\* writer.write: a chunk written after writer.close() is dropped.
SingleSend(st, type) ==
  IF st.writerClosed THEN st ELSE [st EXCEPT !.frames = Append(@, type)]

\* sendError (lines 126-130): the error frame, then writer.close().
SingleSendError(st) == [SingleSend(st, "error") EXCEPT !.writerClosed = TRUE]

\* The finally block up to its await (lines 199-203): close() is called when
\* the variable mcpClient of POST is set.
SingleFinally(st) ==
  IF st.mcpClient THEN [st EXCEPT !.pc = "closing", !.closeCalls = @ + 1]
  ELSE [st EXCEPT !.pc = "closed", !.writerClosed = TRUE]

\* What follows the loop (lines 188-196): the warning when the budget is
\* used up, 'done', and the finally block.
SingleAfterLoop(st) ==
  SingleFinally(SingleSend(IF st.iterationCount >= MAX_TOOL_ITERATIONS
                           THEN SingleSend(st, "warning") ELSE st, "done"))

\* The while test of line 143 and the model call behind it.
SingleLoopHead(st) ==
  IF st.iterationCount < MAX_TOOL_ITERATIONS
  THEN [st EXCEPT !.pc = "model", !.iterationCount = @ + 1]
  ELSE SingleAfterLoop(st)

\* The request arrives; initializeMcpClient runs up to `await connect`
\* (lines 36-82), or throws on a bad env or path.
SinglePost(d) ==
  /\ single.pc = "none"
  /\ single' = IF ValidateConfig(d) = "ok"
               THEN [single EXCEPT !.pc = "connecting"]
               ELSE SingleFinally(SingleSendError(single))

\* connect resolves (line 84): listTools is called and awaited (line 85).
SingleConnectResolves ==
  /\ single.pc = "connecting"
  /\ single' = [single EXCEPT !.pc = "listing", !.connected = TRUE]

\* connect rejects: initializeMcpClient throws, the catch of POST sends the
\* error (line 198), the finally block finds mcpClient null.
SingleConnectRejects ==
  /\ single.pc = "connecting"
  /\ single' = SingleFinally(SingleSendError(single))

\* listTools resolves: initializeMcpClient returns, line 136 sets mcpClient,
\* and the loop makes its first model call.
SingleListResolves ==
  /\ single.pc = "listing"
  /\ single' = SingleLoopHead([single EXCEPT !.mcpClient = TRUE])

\* listTools rejects: initializeMcpClient throws with its client connected;
\* the client is a local of that function, the variable of POST is not set.
SingleListRejects ==
  /\ single.pc = "listing"
  /\ single' = SingleFinally(SingleSendError(single))

\* The model answers with n tool calls (lines 155-160); they run one after
\* the other.
SingleModelReturnsToolCalls(n) ==
  /\ single.pc = "model"
  /\ single' = IF n = 0 THEN SingleLoopHead(SingleSend(single, "message"))
               ELSE [SingleSend(single, "message") EXCEPT !.pc = "tool", !.pending = n]

\* A tool call ends, with a result or an error text (lines 162-183).
SingleToolSettles ==
  /\ single.pc = "tool"
  /\ single' = IF single.pending = 1
               THEN SingleLoopHead([SingleSend(single, "tool") EXCEPT !.pending = 0])
               ELSE [SingleSend(single, "tool") EXCEPT !.pending = @ - 1]

\* The model answers without tool calls: break (line 186).
SingleModelReturnsNoToolCalls ==
  /\ single.pc = "model"
  /\ single' = SingleAfterLoop(SingleSend(single, "message"))

\* The model call rejects: catch (line 198), then finally.
SingleModelFails ==
  /\ single.pc = "model"
  /\ single' = SingleFinally(SingleSendError(single))

\* close() of the finally block returns or rejects; writer.close() (line 205).
SingleCloseSettles ==
  /\ single.pc = "closing"
  /\ single' = [single EXCEPT !.pc = "closed", !.writerClosed = TRUE]

SingleStep ==
  \/ \E d \in [name : {"A"}, path : Paths \cup {PathRunSh, PathDirJs}, env : EnvStrings] :
       SinglePost(d)
  \/ SingleConnectResolves
  \/ SingleConnectRejects
  \/ SingleListResolves
  \/ SingleListRejects
  \/ \E n \in 0..MaxBatch : SingleModelReturnsToolCalls(n)
  \/ SingleToolSettles
  \/ SingleModelReturnsNoToolCalls
  \/ SingleModelFails
  \/ SingleCloseSettles

\* Requests to the single-server chat route; no other request is made.
NextSingle ==
  /\ SingleStep
  /\ UNCHANGED <<servers, pc, att, hs, closeCalls, activeClients, iterationCount,
                 currentMessages, frames, results, invoked, tearing, streamClosed,
                 catalog, warned, readerGone, closeErrors, initialMessages, probe, peer, envs, page>>

InitSingle == RequestArrives(<<>>)

SpecSingle == InitSingle /\ [][NextSingle]_vars

(* --------------------------------------- page.tsx: handleSendMessage *)

\* What a `data:` line of the stream can hold: a frame of one of the three
\* types, or text that JSON.parse rejects.
LineKinds == {"message", "done", "error", "garbage"}

\* Mutant of ProcessLines: 'done' does not end the walk over the lines.
RECURSIVE ProcessLinesPastDone(_, _)
ProcessLinesPastDone(lines, st) ==
  IF lines = <<>> THEN st
  ELSE IF Head(lines) = "message"
       THEN ProcessLinesPastDone(Tail(lines), [st EXCEPT !.messages = Append(@, "message")])
  ELSE IF Head(lines) = "error"
       THEN [st EXCEPT !.messages = Append(@, "Stream Error"), !.pc = "ending"]
  ELSE IF Head(lines) = "done"
       THEN ProcessLinesPastDone(Tail(lines), [st EXCEPT !.pc = "ending"])
  ELSE ProcessLinesPastDone(Tail(lines), st)

\* Lines 398-421: the walk over the lines of a chunk; 'error' and 'done' set
\* streamEndedGracefully and break.
RECURSIVE ProcessLines(_, _)
ProcessLines(lines, st) ==
  IF lines = <<>> THEN st
  ELSE IF Head(lines) = "message"
       THEN ProcessLines(Tail(lines), [st EXCEPT !.messages = Append(@, "message")])
  ELSE IF Head(lines) = "error"
       THEN [st EXCEPT !.messages = Append(@, "Stream Error"), !.pc = "ending"]
  ELSE IF Head(lines) = "done"
       THEN [st EXCEPT !.pc = "ending"]
  ELSE ProcessLines(Tail(lines), st)

\* The finally block (lines 430-435): the loading flag is cleared, the reader
\* cancelled.
PageFinally(st) == [st EXCEPT !.pc = "idle", !.isLoading = FALSE]

\* The catch block (lines 423-429).
PageCatch(st) == [st EXCEPT !.messages = Append(@, "Error")]

\* The user sends a message (lines 346-379): up to `await fetch`.
PageSend ==
  /\ page.pc = "idle"
  /\ ~page.isLoading
  /\ page.sends < MaxSends
  /\ page' = [page EXCEPT !.pc = "fetching", !.isLoading = TRUE, !.sends = @ + 1,
                          !.messages = Append(@, "user"), !.delivered = <<>>,
                          !.shownBefore = Len(page.messages) + 1]

\* fetch rejects, or the response is not ok or has no body (lines 381-385).
PageRequestFails ==
  /\ page.pc = "fetching"
  /\ page' = PageFinally(PageCatch(page))

\* The response is a stream: the first reader.read() is awaited.
PageResponseOk ==
  /\ page.pc = "fetching"
  /\ page' = [page EXCEPT !.pc = "reading"]

\* reader.read() gives a chunk (lines 390-422).
PageReads(chunk) ==
  /\ page.pc = "reading"
  /\ Len(page.delivered) < MaxRead
  /\ LET st == ProcessLines(chunk, [page EXCEPT !.delivered = @ \o chunk])
     IN page' = IF st.pc = "ending" THEN PageFinally(st) ELSE st

\* reader.read() says the stream is over (lines 391-394).
PageStreamEnds ==
  /\ page.pc = "reading"
  /\ page' = PageFinally(page)

\* reader.read() rejects.
PageReadFails ==
  /\ page.pc = "reading"
  /\ page' = PageFinally(PageCatch(page))

PageStep ==
  \/ PageSend
  \/ PageRequestFails
  \/ PageResponseOk
  \/ \E chunk \in SeqsUpTo(LineKinds, MaxChunk) : PageReads(chunk)
  \/ PageStreamEnds
  \/ PageReadFails

\* The page alone: what the server sends is any sequence of lines.
NextPage ==
  /\ PageStep
  /\ UNCHANGED <<servers, pc, att, hs, closeCalls, activeClients, iterationCount,
                 currentMessages, frames, results, invoked, tearing, streamClosed,
                 catalog, warned, readerGone, closeErrors, initialMessages, probe, peer,
                 envs, single>>

InitPage == RequestArrives(<<>>)

SpecPage == InitPage /\ [][NextPage]_vars

\* Scenario B: a request naming two servers with a single tool each, in
\* either order, and a model that asks on pass 1 for one tool of the catalog
\* with arguments that parse and answers pass 2 without tool calls.
ScenarioBServers ==
  { << [name |-> "A", path |-> PathAJs, env |-> "{}"],
       [name |-> "B", path |-> PathCPy, env |-> "{}"] >>,
    << [name |-> "B", path |-> PathCPy, env |-> "{}"],
       [name |-> "A", path |-> PathAJs, env |-> "{}"] >>,
    << [name |-> "A", path |-> PathAJs, env |-> "{}"],
       [name |-> "B", path |-> PathGone, env |-> "{}"] >> }

InitScenarioB == \E list \in ScenarioBServers : RequestArrives(list)

NextScenarioB ==
  \/ Post
  \/ Connecting
  \/ InitReturns
  \/ /\ iterationCount = 1
     /\ \E call \in CallKinds :
          /\ call.name \in Range(catalog)
          /\ JsonKind(call.arguments) # "error"
          /\ ModelReturnsToolCalls(<<call>>)
  \/ /\ iterationCount = 2
     /\ ModelReturnsNoToolCalls
  \/ \E outcome \in {"ok", "exec_error"} : ToolCallSettles(1, outcome)
  \/ BatchSettles
  \/ \E c \in 1..MaxServers : TeardownCloseSettles(c)
  \/ TeardownDone

SpecScenarioB == InitScenarioB /\ [][NextScenarioB]_vars

(* ------------------------------------------------------------ the claims *)

FrameIdx == 1..Len(frames)
TerminalIdx == {k \in FrameIdx : frames[k].type \in {"done", "error"}}
ReplyIdx == {k \in FrameIdx : /\ frames[k].type = "message"
                              /\ frames[k].message.content = "reply"}
WarningIdx == {k \in FrameIdx : frames[k] = MessageFrame(warningMessage)}
Finished == pc \in {"teardown", "closed"}
LastFrameIs(t) == Len(frames) > 0 /\ frames[Len(frames)].type = t
Connected == {i \in Idx : att[i] = "connected"}
NoServerFrame == [type |-> "error", error |-> "Failed to connect to any configured MCP server."]

\* C1: every client whose connect succeeded is closed exactly once, and none
\* is left unclosed once the request's stream is closed.
C1_OpenedClosedOnce ==
  /\ \A i \in Idx : closeCalls[i] <= 1
  /\ streamClosed => \A i \in Connected : closeCalls[i] = 1

\* C2: once the request's processing has finished the last frame is 'done' or
\* 'error'; a stream never holds more than one terminal frame (so never both
\* kinds, nor one kind twice), and no frame follows the terminal frame.
C2_OneTerminalFrameLast ==
  /\ Cardinality(TerminalIdx) <= 1
  /\ \A k \in TerminalIdx : k = Len(frames)
  /\ Finished => (LastFrameIs("done") \/ LastFrameIs("error"))

C2_Witness ==
  /\ streamClosed
  /\ LastFrameIs("done")
  /\ \E k \in FrameIdx : frames[k].type = "message" /\ frames[k].message.role = "tool"

\* C3: when every response of the model carried at least one tool call and the
\* request ended with 'done', the model was called exactly 5 times and exactly
\* one warning was written, as the frame right before 'done' (so it is the last
\* assistant-role message of the stream).
EveryReplyAsksForTools ==
  \A k \in ReplyIdx : /\ frames[k].message.has_tool_calls
                      /\ Len(frames[k].message.tool_calls) >= 1

C3_BudgetBoundary ==
  (LastFrameIs("done") /\ EveryReplyAsksForTools) =>
     /\ iterationCount = 5
     /\ Cardinality(ReplyIdx) = 5
     /\ WarningIdx = {Len(frames) - 1}
     /\ warningMessage.role = "assistant"
     /\ \A k \in FrameIdx : (frames[k].type = "message" /\ frames[k].message.role = "assistant")
                              => k <= Len(frames) - 1

C3_Witness ==
  /\ streamClosed
  /\ LastFrameIs("done")
  /\ EveryReplyAsksForTools
  /\ Cardinality(ReplyIdx) = 5

\* C4: the model is never called more than 5 times in a request, and the
\* request eventually writes its terminal frame and closes the stream.
C4_BoundedAndTerminates ==
  /\ [](iterationCount <= 5 /\ Cardinality(ReplyIdx) <= 5)
  /\ <>(streamClosed /\ (LastFrameIs("done") \/ LastFrameIs("error")))

C4_Witness ==
  /\ streamClosed
  /\ iterationCount = 5
  /\ Cardinality(ReplyIdx) = 5
  /\ \E k \in ReplyIdx : frames[k].message.has_tool_calls /\ frames[k].message.tool_calls = <<>>

\* C5: when the descriptor list is not empty and every connection attempt has
\* failed, the model is never called and the stream holds nothing but, once
\* initializeAllMcpClients has returned, the one 'error' frame "Failed to
\* connect to any configured MCP server." (no 'message' frame, no 'done').
C5_NoServerAvailable ==
  (Len(servers) > 0 /\ \A i \in Idx : att[i] = "failed") =>
     /\ iterationCount = 0
     /\ currentMessages = <<>>
     /\ frames = IF pc = "init" THEN <<>> ELSE <<NoServerFrame>>

C5_Witness ==
  /\ streamClosed
  /\ Len(servers) = 2
  /\ \A i \in Idx : att[i] = "failed"
  /\ ValidateConfig(servers[1]) # "ok"
  /\ closeCalls[2] = 1
  /\ frames = <<NoServerFrame>>

\* C6: when at least one descriptor's connect and tool listing succeeded
\* within the timeout, the pool is not empty, and once every attempt has
\* settled initializeAllMcpClients returns normally: the loop is entered and
\* the no-server error is not raised, whatever the other descriptors did.
C6_OneSuccessSuffices ==
  Connected # {} =>
     /\ pc # "closed" => Len(activeClients) >= 1
     /\ pc \notin {"idle", "init"} => (iterationCount >= 1 /\ NoServerFrame \notin Range(frames))

C6_Witness ==
  /\ pc = "model"
  /\ Len(servers) = 2
  /\ Cardinality(Connected) = 1
  /\ \E j \in Idx : att[j] = "failed" /\ closeCalls[j] = 1 /\ hs[j] = "pending"

\* C7: a descriptor whose attempt failed is not in the pool, and when a client
\* had been created for it, close was called on that client before
\* initializeAllMcpClients returned.
C7_FailedExcludedAndClosed ==
  \A i \in Idx :
    att[i] \in {"closing", "failed"} =>
       /\ i \notin PoolClients(activeClients)
       /\ hs[i] # "none" => closeCalls[i] = 1

C7_Witness ==
  /\ pc = "model"
  /\ \E i \in Idx : att[i] = "failed" /\ hs[i] = "rejected" /\ closeCalls[i] = 1
  /\ \E j \in Idx : att[j] = "connected" /\ activeClients = <<ClientInfo(j)>>

\* C8: an attempt whose timer fired before its handshake and tool listing
\* completed is out of the pool with its client closed, and stays out of the
\* pool when the handshake or the listing completes afterwards.
TimedOut == {i \in Idx : att[i] \in {"closing", "failed"} /\ hs[i] \in {"pending", "resolved"}}

C8_TimeoutIsFailure ==
  \A i \in TimedOut : i \notin PoolClients(activeClients) /\ closeCalls[i] = 1

C8_Witness ==
  /\ pc = "model"
  /\ \E i \in Idx : att[i] = "failed" /\ hs[i] = "resolved"
  /\ Len(activeClients) = 1

\* C9: the pool's iteration order is the order of the descriptors in the
\* input list, whichever attempt completes first.
C9_PoolInDescriptorOrder ==
  \A j, k \in 1..Len(activeClients) :
    j < k => activeClients[j].client < activeClients[k].client

\* C10: every tool call is dispatched to the first connection, in pool
\* iteration order, that exposes its name, and all the calls for one name in a
\* request go to one connection.
Exposing(functionName) ==
  {k \in 1..Len(activeClients) : functionName \in ToolNames(activeClients[k])}

C10_FirstExposingWins ==
  /\ \A k \in 1..Len(results) :
       results[k].target # 0 =>
          \E e \in Exposing(results[k].name) :
             /\ results[k].target = activeClients[e].client
             /\ \A f \in Exposing(results[k].name) : e <= f
  /\ \A n \in CallNames : Cardinality(invoked[n]) <= 1

C10_Witness ==
  /\ Len(activeClients) = 2
  /\ Cardinality(Exposing("X")) = 2
  /\ iterationCount >= 2
  /\ Len(results) = 2
  /\ \A k \in 1..2 : results[k].name = "X" /\ results[k].target = activeClients[1].client
  /\ activeClients[1].client = 2

\* C11: when the catalog holds no tool name twice, every name of the catalog
\* resolves to the client of the entry whose tool list put it there, and
\* every call of the current batch that asks for it with arguments that parse
\* was dispatched to that client and to no other.
C11_CatalogRoundTrip ==
  ~DuplicateToolNames(activeClients) =>
     \A e \in 1..Len(activeClients) :
       \A t \in 1..Len(activeClients[e].tools) :
         LET functionName == activeClients[e].tools[t]
         IN /\ functionName \in Range(allAvailableTools(activeClients))
            /\ Resolve(activeClients, functionName) = activeClients[e].client
            /\ invoked[functionName] \subseteq {activeClients[e].client}
            /\ \A k \in 1..Len(results) :
                 (results[k].name = functionName /\ JsonKind(results[k].arguments) # "error")
                    => /\ results[k].target = activeClients[e].client
                       /\ invoked[functionName] = {activeClients[e].client}

C11_Witness ==
  /\ pc = "tools"
  /\ Len(activeClients) = 2
  /\ ~DuplicateToolNames(activeClients)
  /\ activeClients[1].client = 2
  /\ Len(results) = 1
  /\ results[1].name = "X" /\ results[1].status = "pending" /\ results[1].target = 1
  /\ invoked["Y"] = {2}

\* The step in which Promise.all(toolCallPromises) resolves: one tool message
\* per call of the batch, with the call's id, is appended to the history and
\* written to the stream in the order of the calls; no 'error' frame is
\* written, and unless this was pass 5 the model is called again.
BatchStep == pc = "tools" /\ pc' # "tools"
BatchMessages == [k \in 1..Len(results) |-> ToolMessage(<<iterationCount, k>>)]
BatchFrames == [k \in 1..Len(results) |-> MessageFrame(BatchMessages[k])]
NoErrorFrame(fs) == \A j \in 1..Len(fs) : fs[j].type # "error"

BatchAnswered ==
  /\ \A k \in 1..Len(results) : results[k].id = <<iterationCount, k>>
  /\ currentMessages' = currentMessages \o BatchMessages
  /\ Len(frames') >= Len(frames) + Len(results)
  /\ SubSeq(frames', 1, Len(frames) + Len(results)) = frames \o BatchFrames
  /\ NoErrorFrame(frames')
  /\ iterationCount < MAX_TOOL_ITERATIONS =>
        (pc' = "model" /\ iterationCount' = iterationCount + 1)

\* While the batch waits, nothing is written and the calls still pending can
\* settle with their own result.
OthersCanSettle ==
  \A j \in 1..Len(results) :
    results[j].status = "pending" => ENABLED ToolCallSettles(j, "ok")

\* C12: a call whose arguments parse and whose name is in no entry's
\* toolNames is settled at once with the not-available error text under its
\* own id, without callTool being issued for that name on any client; the
\* other calls of the batch still settle, and the batch is answered with one
\* tool message per call and followed by the next model call.
Unroutable(k) ==
  /\ JsonKind(results[k].arguments) # "error"
  /\ \A e \in 1..Len(activeClients) : results[k].name \notin ToolNames(activeClients[e])

C12_NotFoundIsAResult ==
  /\ [](\A k \in 1..Len(results) :
         Unroutable(k) =>
            /\ results[k].status = "settled"
            /\ results[k].content = "not_found"
            /\ results[k].id = <<iterationCount, k>>
            /\ results[k].target = 0
            /\ invoked[results[k].name] = {}
            /\ pc = "tools"
            /\ OthersCanSettle)
  /\ [][(BatchStep /\ \E k \in 1..Len(results) : Unroutable(k)) => BatchAnswered]_vars

C12_Witness ==
  /\ pc = "tools"
  /\ Len(results) = 2
  /\ Unroutable(1) /\ results[1].content = "not_found"
  /\ results[2].status = "pending" /\ results[2].target # 0

\* C13: a call whose arguments string JSON.parse rejects is settled at once
\* with the parse-error text under its own id and without a target; callTool
\* is issued only for calls whose arguments parse; the batch is answered with
\* one tool message per call and followed by the next model call.
BadArguments(k) == JsonKind(results[k].arguments) = "error"

Dispatched(rs, n) ==
  {rs[k].target : k \in {j \in 1..Len(rs) : /\ rs[j].name = n
                                             /\ JsonKind(rs[j].arguments) # "error"
                                             /\ rs[j].target # 0}}

C13_ParseErrorIsAResult ==
  /\ [](\A k \in 1..Len(results) :
         BadArguments(k) =>
            /\ results[k].status = "settled"
            /\ results[k].content = "parse_error"
            /\ results[k].id = <<iterationCount, k>>
            /\ results[k].target = 0
            /\ pc = "tools")
  /\ [][/\ \A n \in CallNames : invoked'[n] \subseteq invoked[n] \cup Dispatched(results', n)
        /\ (BatchStep /\ \E k \in 1..Len(results) : BadArguments(k)) => BatchAnswered]_vars

C13_Witness ==
  /\ pc = "tools"
  /\ iterationCount = 1
  /\ Len(results) = 1
  /\ results[1].arguments = "{bad json"
  /\ results[1].content = "parse_error"
  /\ Resolve(activeClients, results[1].name) # 0
  /\ invoked[results[1].name] = {}

\* C14: a callTool that rejects settles its call with the execution-error
\* text under the call's id; the call had been issued to the client the
\* routing chose; nothing is written while the batch waits, no 'error' frame
\* is in the stream, the other calls still settle, and the batch is answered
\* with one tool message per call and followed by the next model call.
ExecFailed(k) == results[k].content = "exec_error"

C14_ToolFailureIsAResult ==
  /\ [](\A k \in 1..Len(results) :
         ExecFailed(k) =>
            /\ results[k].status = "settled"
            /\ results[k].id = <<iterationCount, k>>
            /\ results[k].target = Resolve(activeClients, results[k].name)
            /\ results[k].target \in invoked[results[k].name]
            /\ pc = "tools"
            /\ NoErrorFrame(frames)
            /\ OthersCanSettle)
  /\ [][/\ pc = "tools" =>
             /\ NoErrorFrame(frames')
             /\ pc' = "tools" => (frames' = frames /\ currentMessages' = currentMessages)
        /\ (BatchStep /\ \E k \in 1..Len(results) : ExecFailed(k)) => BatchAnswered]_vars

C14_Witness ==
  /\ pc = "tools"
  /\ Len(results) = 2
  /\ ExecFailed(1)
  /\ results[2].status = "pending"

\* C15: when a batch is answered, the history and the stream each grow by
\* exactly one tool message per tool call of the response that opened the
\* batch, and the i-th of them carries the id of the i-th call of that
\* response, whatever the order in which the calls settled.
Requested == currentMessages[Len(currentMessages)].tool_calls
ToolFrames(fs) == {j \in 1..Len(fs) : fs[j].type = "message" /\ fs[j].message.role = "tool"}

C15_OneAnswerPerCallInCallOrder ==
  [][BatchStep =>
       /\ currentMessages[Len(currentMessages)].role = "assistant"
       /\ Len(Requested) = Len(results)
       /\ Len(currentMessages') = Len(currentMessages) + Len(Requested)
       /\ Cardinality(ToolFrames(frames')) = Cardinality(ToolFrames(frames)) + Len(Requested)
       /\ \A i \in 1..Len(Requested) :
            /\ currentMessages'[Len(currentMessages) + i].role = "tool"
            /\ currentMessages'[Len(currentMessages) + i].tool_call_id = Requested[i]
            /\ frames'[Len(frames) + i] = MessageFrame(currentMessages'[Len(currentMessages) + i])]_vars

C15_Witness ==
  /\ pc = "tools"
  /\ Len(results) = 2
  /\ results[1].status = "pending"
  /\ results[2].content = "exec_error"

\* C16: the model is called again only when every call of the batch has
\* settled, and whenever a model call is under way the history holds, after
\* each assistant message, a tool message for each of its tool calls.
Answered(m, id) ==
  \E t \in (m + 1)..Len(currentMessages) :
    currentMessages[t].role = "tool" /\ currentMessages[t].tool_call_id = id

C16_BatchJoinedBeforeNextCall ==
  /\ [](pc = "model" =>
          /\ \A k \in 1..Len(results) : results[k].status = "settled"
          /\ \A m \in 1..Len(currentMessages) :
               \A i \in 1..Len(currentMessages[m].tool_calls) :
                 Answered(m, currentMessages[m].tool_calls[i]))
  /\ [][(pc = "tools" /\ pc' = "model") =>
           \A k \in 1..Len(results) : results[k].status = "settled"]_vars

C16_Witness ==
  /\ pc = "model"
  /\ iterationCount = 3
  /\ Len(currentMessages) = 5
  /\ Len(currentMessages[1].tool_calls) = 2
  /\ Len(currentMessages[4].tool_calls) = 1

\* C17: the messages of the 'message' frames of the stream, in stream order,
\* are the messages pushed to the history by the loop, in history order.
IsMessageFrame(f) == f.type = "message"
IsPushedFrame(f) == f.type = "message" /\ f.message # warningMessage
MessagesOf(fs) == [k \in 1..Len(fs) |-> fs[k].message]

C17_StreamIsHistory == MessagesOf(SelectSeq(frames, IsMessageFrame)) = currentMessages

\* C17 as amended: leaving out the budget warning, the messages of the
\* 'message' frames are the messages pushed to the history, in order; the
\* warning is written at most once, right before 'done', and is not pushed.
C17_StreamIsHistoryButWarning ==
  /\ MessagesOf(SelectSeq(frames, IsPushedFrame)) = currentMessages
  /\ \A k \in WarningIdx : k = Len(frames) - 1 /\ LastFrameIs("done")
  /\ warningMessage \notin Range(currentMessages)

C17_Witness ==
  /\ streamClosed
  /\ WarningIdx # {}
  /\ Len(currentMessages) = 12
  /\ Len(frames) = 14

\* C18: once 'done' is written, the stream holds the budget warning exactly
\* when the model was called 5 times and its 5th response held at least one
\* tool call.
LastReply == frames[CHOOSE k \in ReplyIdx : \A j \in ReplyIdx : j <= k].message

C18_WarningIffFifthAsksForTools ==
  (LastFrameIs("done") /\ ReplyIdx # {}) =>
     (WarningIdx # {} <=> (Cardinality(ReplyIdx) = 5 /\ Len(LastReply.tool_calls) >= 1))

\* C19: after a response without tool calls (no tool_calls field, or an empty
\* list) the model is not called again and the next frame is 'done'.
RepliesUpTo(k) == {j \in ReplyIdx : j <= k}

C19_NoToolCallsEndsLoop ==
  \A k \in ReplyIdx :
    Len(frames[k].message.tool_calls) = 0 =>
       /\ iterationCount = Cardinality(RepliesUpTo(k))
       /\ k < Len(frames) => frames[k + 1] = DoneFrame

\* C20: when the completion call fails, the frames written so far stay as
\* they are and one 'error' frame is added; from then on the stream has
\* exactly that one terminal frame, as its last frame, and no 'done'; no model
\* call and no callTool is issued; close() has been called once on the client
\* of every entry of the pool.
ModelFailed == LastFrameIs("error") /\ iterationCount >= 1

C20_ModelFailureIsFatal ==
  /\ [](ModelFailed =>
          /\ TerminalIdx = {Len(frames)}
          /\ pc \in {"teardown", "closed"}
          /\ results = <<>>
          /\ \A c \in PoolClients(activeClients) : closeCalls[c] = 1
          /\ pc = "closed" => activeClients = <<>>)
  /\ [][/\ (pc = "model" /\ pc' \notin {"model", "tools"} /\ frames'[Len(frames')].type = "error") =>
             /\ frames' = Append(frames, frames'[Len(frames')])
             /\ NoErrorFrame(frames)
             /\ tearing' = PoolClients(activeClients)
             /\ \A c \in PoolClients(activeClients) : closeCalls'[c] = 1
        /\ ModelFailed =>
             /\ frames' = frames
             /\ iterationCount' = iterationCount
             /\ invoked' = invoked
             /\ closeCalls' = closeCalls
             /\ currentMessages' = currentMessages]_vars

C20_Witness ==
  /\ streamClosed
  /\ ModelFailed
  /\ iterationCount = 3
  /\ Len(frames) = 5
  /\ Cardinality(Connected) = 2
  /\ \A i \in Idx : closeCalls[i] = 1

\* C21: once the caller has dropped the stream, close() is called on every
\* client the request connected and the request reaches its end; a teardown
\* that has begun has called close() exactly once on each of them.
C21_DroppedStreamStillTornDown ==
  /\ []((readerGone /\ Finished) => \A i \in Connected : closeCalls[i] = 1)
  /\ (readerGone ~> (pc = "closed" /\ \A i \in Connected : closeCalls[i] = 1))

C21_Witness ==
  /\ readerGone
  /\ pc = "closed"
  /\ Cardinality(Connected) = 2
  /\ iterationCount = 2
  /\ Len(currentMessages) = 3
  /\ Len(frames) = 1

\* C22: while the loop runs (a model call or a batch is under way) no step
\* changes the Map: its entries, their order and their tool lists stay as
\* initializeAllMcpClients returned them, also when a callTool has rejected
\* or a handshake that lost against its timer completes.
C22_PoolFixedDuringLoop ==
  [][(pc \in {"model", "tools"}) => (activeClients' = activeClients)]_vars

C22_Witness ==
  /\ pc = "model"
  /\ iterationCount = 2
  /\ Len(activeClients) = 1
  /\ invoked["X"] = PoolClients(activeClients)
  /\ \E i \in Idx : att[i] = "failed" /\ hs[i] = "resolved"

\* C24: a close() that rejects, in the catch block of a connection attempt
\* or in the finally block, is swallowed: the only 'error' frames are the
\* no-server error and a failed model call, initializeAllMcpClients still
\* returns (the loop runs whenever a client is in the Map), close() is still
\* called once on every client of the Map, and the stream is closed in the
\* end.
KnownErrors ==
  {NoServerFrame, [type |-> "error", error |-> "model call failed"]}

C24_CloseFailureIsSwallowed ==
  /\ [](closeErrors # {} =>
          /\ \A k \in FrameIdx : frames[k].type = "error" => frames[k] \in KnownErrors
          /\ (pc \notin {"idle", "init"} /\ Connected # {}) => iterationCount >= 1
          /\ Finished => \A i \in Connected : closeCalls[i] = 1
          /\ \A i \in closeErrors : closeCalls[i] = 1)
  /\ (closeErrors # {} ~> streamClosed)

C24_Witness ==
  /\ streamClosed
  /\ closeErrors = {1, 2}
  /\ Connected = {2}
  /\ hs[1] = "pending"
  /\ LastFrameIs("done")

\* C25: with two descriptors of which one connected, with a single tool, and
\* the other failed, and a model that asks for that tool and then answers
\* without tool calls, the finished request has written exactly: the
\* assistant message with the call, the tool message with the call's id, the
\* final assistant message, 'done'; callTool was issued for that tool only,
\* on the sole client of the Map, in one step of pass 1 and for one call; and
\* close() was called once on that client.
ScenarioB ==
  /\ Finished
  /\ Len(servers) = 2
  /\ Cardinality(Connected) = 1
  /\ Len(catalog) = 1

ScenarioBFrames ==
  << MessageFrame(AssistantMessage(TRUE, << <<1, 1>> >>)),
     [type |-> "message",
      message |-> [role |-> "tool", has_tool_calls |-> FALSE, tool_calls |-> <<>>,
                   tool_call_id |-> <<1, 1>>, content |-> "result"]],
     MessageFrame(AssistantMessage(FALSE, <<>>)),
     DoneFrame >>

C25_ScenarioB ==
  /\ [](ScenarioB =>
          /\ frames = ScenarioBFrames
          /\ iterationCount = 2
          /\ invoked[catalog[1]] = Connected
          /\ \A n \in CallNames \ {catalog[1]} : invoked[n] = {}
          /\ \A i \in Connected : closeCalls[i] = 1)
  /\ [][(\E k \in 1..Len(results') : results'[k].status = "pending" /\ results' # results
                                        /\ (k > Len(results) \/ results[k].status # "pending"))
          => (pc = "model" /\ iterationCount = 1 /\ Len(results') = 1
              /\ results'[1].target \in Connected)]_vars

C25_Witness ==
  /\ ScenarioB
  /\ streamClosed
  /\ activeClients = <<>>
  /\ Connected = {2}
  /\ hs[1] = "rejected"
  /\ invoked["Y"] = {2}

\* C26: a request with an empty descriptor list never writes the no-server
\* error: initializeAllMcpClients returns, the model is called with tools and
\* tool_choice undefined, and unless a model call fails the request ends
\* with 'done'; the no-server error is written only for a non-empty list
\* whose attempts all failed.
ModelFailedFrame == [type |-> "error", error |-> "model call failed"]

C26_EmptyListIsLegal ==
  /\ Len(servers) = 0 =>
       /\ NoServerFrame \notin Range(frames)
       /\ pc \notin {"idle", "init"} => iterationCount >= 1
       /\ pc = "model" => /\ ~toolsParam(catalog).present
                          /\ toolChoiceParam(catalog) = "undefined"
       /\ (Finished /\ ModelFailedFrame \notin Range(frames)) => LastFrameIs("done")
  /\ NoServerFrame \in Range(frames) =>
       /\ Len(servers) > 0
       /\ activeClients = <<>>
       /\ \A i \in Idx : att[i] = "failed"

C26_Witness ==
  /\ Len(servers) = 0
  /\ streamClosed
  /\ iterationCount = 2
  /\ Len(frames) = 4
  /\ LastFrameIs("done")

\* C29: initializeAllMcpClients returns only when every attempt has ended as
\* connected or failed (a failed one with its close() in the catch block
\* done); an attempt whose handshake is still unanswered at that time has
\* failed by its timer; and the function does return, even when a server
\* never answers.
EveryAttemptEnded == \A i \in Idx : att[i] \in {"connected", "failed"}

C29_InitIsAJoin ==
  /\ [](pc \notin {"idle", "init"} =>
          /\ EveryAttemptEnded
          /\ \A i \in Idx : hs[i] = "pending" => (att[i] = "failed" /\ closeCalls[i] = 1))
  /\ [][(pc = "init" /\ pc' # "init") => EveryAttemptEnded]_vars
  /\ (pc = "init" ~> pc # "init")

C29_Witness ==
  /\ pc = "model"
  /\ Len(servers) = 2
  /\ hs[1] = "pending" /\ att[1] = "failed"
  /\ att[2] = "connected"

\* C30: while the loop runs, the catalog is the tool lists of the pool's
\* entries laid end to end, entries in Map order and each list in its own
\* order, and no step of the loop changes it, so every model call of the
\* request gets the same one.
RECURSIVE PoolToolsBefore(_)
PoolToolsBefore(j) ==
  IF j <= 1 THEN 0 ELSE PoolToolsBefore(j - 1) + Len(activeClients[j - 1].tools)

C30_CatalogIsConcatenation ==
  /\ [](pc \in {"model", "tools"} =>
          /\ Len(catalog) = PoolToolsBefore(Len(activeClients) + 1)
          /\ \A j \in 1..Len(activeClients) :
               \A t \in 1..Len(activeClients[j].tools) :
                 catalog[PoolToolsBefore(j) + t] = activeClients[j].tools[t])
  /\ [][(pc \in {"model", "tools"}) => (catalog' = catalog)]_vars

C30_Witness ==
  /\ pc = "model"
  /\ iterationCount >= 2
  /\ Len(activeClients) = 2
  /\ activeClients[1].tools = <<"X", "Y">>
  /\ catalog = <<"X", "Y", "X">>

\* C28: a configuration returned by a successful manual installation (git
\* or npx) is never turned down by the connect step's checks of the path:
\* that the script exists, is a file, and ends in .js or .py.
PathRejections == {"Script not found", "Path must be a file", "Script must be .js or .py"}

C28_InstalledServerIsAccepted ==
  pc # "idle" =>
    \A i \in Idx :
      (att[i] = "failed" /\ hs[i] = "none") => ValidateConfig(servers[i]) \notin PathRejections

\* C27: /api/server-info, given a body with a `servers` array of n
\* descriptors, answers with status 200 and a list of n results, one per
\* descriptor and in the descriptors' order, each naming its server and
\* carrying status "connected" with the tools or status "error" with a text.
C27_ProbeAnswersPerDescriptor ==
  (probe.pc = "done" /\ probe.body.hasServers) =>
    /\ probe.response.status = 200
    /\ probe.response.shape = "list"
    /\ Len(probe.response.items) = Len(probe.body.servers)
    /\ \A k \in 1..Len(probe.body.servers) :
         /\ probe.response.items[k].serverName = probe.body.servers[k].name
         /\ probe.response.items[k].status \in {"connected", "error"}

\* C23: of two requests in flight together that name the same servers, each
\* has its own pool of its own connections; each dispatches tool calls to
\* and closes connections of its own only, and a step in which one request
\* closes connections leaves the other request's connections as they are.
C23_PoolsAreDisjoint ==
  /\ [](/\ PoolClients(activeClients) \subseteq Idx
        /\ PoolClients(peer.pool) \subseteq PeerClients
        /\ \A n \in CallNames : invoked[n] \subseteq Idx
        /\ peer.called \subseteq PeerClients
        /\ tearing \subseteq Idx
        /\ peer.closed \subseteq PeerClients)
  /\ [][/\ (peer.closed' # peer.closed) => UNCHANGED <<closeCalls, tearing, activeClients>>
        /\ (closeCalls' # closeCalls) => (peer' = peer)]_vars

C23_Witness ==
  /\ pc = "tools"
  /\ \E n \in CallNames : invoked[n] # {}
  /\ Len(activeClients) = 2
  /\ \A i \in Idx : closeCalls[i] = 0
  /\ peer.pc = "closed"
  /\ peer.called # {}
  /\ Cardinality(peer.closed) = 2

\* C31: the collision warning is given exactly when some name stands at two
\* places of the catalog; the step that gives it writes no frame and goes on
\* to the first model call, and the model gets the catalog with every one of
\* the colliding entries.
NameTwiceIn(cat) ==
  \E k \in 1..Len(cat) : \E l \in 1..Len(cat) : k # l /\ cat[k] = cat[l]

C31_CollisionIsFlaggedNotFatal ==
  /\ [](pc \in {"model", "tools"} =>
          /\ warned <=> NameTwiceIn(catalog)
          /\ toolsParam(catalog).tools = catalog)
  /\ [][(pc = "init" /\ warned') =>
          /\ pc' = "model"
          /\ frames' = frames
          /\ NameTwiceIn(catalog')
          /\ Len(catalog') = PoolToolsBefore(Len(activeClients) + 1)]_vars
  /\ [](warned => \A k \in 1..Len(frames) :
                    frames[k].type = "error" => frames[k] = ModelFailedFrame)

C31_Witness ==
  /\ warned
  /\ pc = "closed"
  /\ LastFrameIs("done")
  /\ catalog = <<"X", "X", "Y">>

\* C32: a descriptor whose env is not JSON or is JSON but no object, or whose
\* path is missing, is no regular file or ends in neither .js nor .py, never
\* gets a transport, a handshake or a close() and never enters the pool; the
\* other descriptors of the list are attempted all the same.
Faulty(d) ==
  \/ d.env \in {"{bad", "[]", "null"}
  \/ d.path \in {PathGone, PathDirJs}
  \/ d.path.ext \notin {".js", ".py"}

C32_FaultyDescriptorFailsAlone ==
  \A i \in Idx :
    /\ Faulty(servers[i]) =>
         /\ hs[i] = "none"
         /\ closeCalls[i] = 0
         /\ att[i] \in {"none", "failed"}
         /\ i \notin PoolClients(activeClients)
         /\ i \notin tearing
    /\ (~Faulty(servers[i]) /\ pc # "idle") => (att[i] # "none" /\ hs[i] # "none")

C32_Witness ==
  /\ pc = "tools"
  /\ Len(servers) = 2
  /\ Faulty(servers[1])
  /\ servers[1].path = PathRunSh
  /\ att[1] = "failed"
  /\ PoolClients(activeClients) = {2}
  /\ invoked["X"] = {2}

\* C33: the environment handed to a spawned server has, for every key, the
\* descriptor's value as a string when the descriptor has the key, else the
\* ambient value when that is defined, else nothing; and spawning leaves
\* process.env as it was.
C33_SpawnEnvIsMergeOverCleanAmbient ==
  /\ [](envs.pc = "spawned" =>
          \A k \in EnvKeys :
            /\ envs.handed[k].type \in {"absent", "string"}
            /\ envs.handed[k].text =
                 (IF envs.parsedEnv[k].type # "absent" THEN envs.parsedEnv[k].text
                  ELSE IF envs.processEnv[k].type = "string" THEN envs.processEnv[k].text
                  ELSE "")
            /\ envs.handed[k].type = "absent" <=>
                 (envs.parsedEnv[k].type = "absent" /\ envs.processEnv[k].type # "string"))
  /\ [][(envs.pc # "none") => (envs.processEnv' = envs.processEnv)]_vars

C33_Witness ==
  /\ envs.pc = "spawned"
  /\ envs.processEnv["K1"] = UndefinedValue
  /\ envs.parsedEnv["K1"] = AbsentValue
  /\ envs.processEnv["K2"].type = "string"
  /\ envs.parsedEnv["K2"].type = "number"
  /\ envs.handed["K2"] = [type |-> "string", text |-> "7"]

\* C34: the history is the caller's list followed by what the loop pushed.
\* Every step leaves what was pushed before in place and at most adds to its
\* end; whenever a model call is pending, the pushed part is a run of rounds,
\* one per earlier model call: the assistant response, then one tool message
\* for each tool call of that response, with that call's id; and no step
\* changes the caller's list.
HistoryPassed == initialMessages \o currentMessages

RECURSIVE RoundsFrom(_, _)
RoundsFrom(msgs, p) ==
  IF p > Len(msgs) THEN TRUE
  ELSE LET n == Len(msgs[p].tool_calls)
       IN /\ msgs[p].role = "assistant"
          /\ p + n <= Len(msgs)
          /\ \A j \in 1..n : msgs[p + j].role = "tool"
          /\ \A c \in 1..n :
               Cardinality({j \in 1..n : msgs[p + j].tool_call_id = msgs[p].tool_calls[c]}) = 1
          /\ RoundsFrom(msgs, p + n + 1)

AssistantCount(msgs) == Cardinality({k \in 1..Len(msgs) : msgs[k].role = "assistant"})

C34_HistoryOnlyAppended ==
  /\ [][/\ Len(HistoryPassed') >= Len(HistoryPassed)
        /\ SubSeq(HistoryPassed', 1, Len(HistoryPassed)) = HistoryPassed
        /\ initialMessages' = initialMessages]_vars
  /\ [](pc = "model" =>
          /\ RoundsFrom(currentMessages, 1)
          /\ AssistantCount(currentMessages) = iterationCount - 1)

C34_Witness ==
  /\ pc = "model"
  /\ iterationCount = 3
  /\ Len(currentMessages) = 5
  /\ Len(currentMessages[1].tool_calls) = 2
  /\ Len(currentMessages[4].tool_calls) = 1

\* C35: once initializeAllMcpClients has returned and until teardown clears
\* the Map, the pool has one entry for every descriptor whose connect
\* succeeded, also when descriptors share a name: the clients of the pool
\* are all the connected clients, so teardown reaches each of them.
C35_PoolHoldsEveryConnected ==
  pc \in {"model", "tools", "teardown"} =>
    /\ PoolClients(activeClients) = Connected
    /\ Len(activeClients) = Cardinality(Connected)

\* C36: every response with tool calls has its batch run, the 5th too: while
\* the batch of pass 5 is in flight its calls that can be routed have been
\* issued to their clients; the step that ends that batch writes one tool
\* message per call, then the warning, then 'done'; and whenever no batch is
\* in flight each response frame is followed by the tool messages of its
\* calls, so there are as many batches as responses with tool calls.
ToolFrame(id) ==
  [type |-> "message",
   message |-> [role |-> "tool", has_tool_calls |-> FALSE, tool_calls |-> <<>>,
                tool_call_id |-> id, content |-> "result"]]

WarningFrame ==
  [type |-> "message",
   message |-> [role |-> "assistant", has_tool_calls |-> FALSE, tool_calls |-> <<>>,
                tool_call_id |-> <<0, 0>>, content |-> "warning"]]

C36_LastBatchStillRuns ==
  /\ [](pc # "tools" =>
          \A k \in 1..Len(frames) :
            (frames[k].type = "message" /\ Len(frames[k].message.tool_calls) > 0) =>
              LET calls == frames[k].message.tool_calls
              IN /\ k + Len(calls) <= Len(frames)
                 /\ \A j \in 1..Len(calls) : frames[k + j] = ToolFrame(calls[j]))
  /\ []((pc = "tools" /\ iterationCount = 5) =>
          LET last == currentMessages[Len(currentMessages)]
          IN /\ last.role = "assistant"
             /\ AssistantCount(currentMessages) = 5
             /\ Len(results) = Len(last.tool_calls)
             /\ \A k \in 1..Len(results) :
                  /\ results[k].id = last.tool_calls[k]
                  /\ results[k].target # 0 => results[k].target \in invoked[results[k].name])
  /\ [][(pc = "tools" /\ iterationCount = 5 /\ pc' # "tools") =>
          frames' = frames \o [k \in 1..Len(results) |-> ToolFrame(results[k].id)]
                           \o <<WarningFrame, [type |-> "done"]>>]_vars

C36_Witness ==
  /\ pc = "closed"
  /\ Cardinality(ReplyIdx) = 5
  /\ Len(LastReply.tool_calls) = 2
  /\ Len(frames) >= 4
  /\ frames[Len(frames) - 2] = ToolFrame(<<5, 2>>)
  /\ frames[Len(frames) - 1] = WarningFrame
  /\ LastFrameIs("done")
  /\ invoked["Y"] # {}

\* C37: in the single-server route, once the request is over a client whose
\* connect succeeded has been closed exactly once, whichever way the request
\* ended; and when initialization failed the stream holds the one 'error'
\* frame and is closed.
C37_SingleClosesItsClient ==
  single.pc = "closed" =>
    /\ single.writerClosed
    /\ single.connected => single.closeCalls = 1
    /\ single.iterationCount = 0 => single.frames = <<"error">>

\* C38: of the frames a stream has delivered, only those up to the first
\* 'done' or 'error' show in the conversation: one message per 'message'
\* frame before it, and the error text when it is an 'error' frame; the
\* loading flag is set exactly while a send is under way, so it is cleared
\* however the send ended, and the user can then send again.
FirstTerminal(d) ==
  IF \E k \in 1..Len(d) : d[k] \in {"done", "error"}
  THEN CHOOSE k \in 1..Len(d) : /\ d[k] \in {"done", "error"}
                                /\ \A j \in 1..(k - 1) : d[j] \notin {"done", "error"}
  ELSE Len(d) + 1

ShownOf(d) ==
  Cardinality({k \in 1..Len(d) : k < FirstTerminal(d) /\ d[k] = "message"})

FromStream(st) ==
  SelectSeq(SubSeq(st.messages, st.shownBefore + 1, Len(st.messages)),
            LAMBDA m : m # "Error")

C38_NothingShownAfterTerminal ==
  /\ Len(FromStream(page)) =
       ShownOf(page.delivered)
       + (IF \E k \in 1..Len(page.delivered) :
               k = FirstTerminal(page.delivered) /\ page.delivered[k] = "error"
          THEN 1 ELSE 0)
  /\ \A k \in 1..Len(FromStream(page)) :
       FromStream(page)[k] = (IF k <= ShownOf(page.delivered) THEN "message" ELSE "Stream Error")
  /\ page.isLoading <=> page.pc \in {"fetching", "reading"}
  /\ (page.pc = "idle" /\ page.sends < MaxSends) => ENABLED PageSend

C38_Witness ==
  /\ page.pc = "idle"
  /\ page.sends = 2
  /\ ~page.isLoading
  /\ page.delivered = <<"message", "done", "message">>
  /\ page.messages[Len(page.messages)] = "message"
  /\ Len(page.messages) >= 4

====
